---- MODULE Spec2Model ----
(***************************************************************************)
(* Model of app/anonymizer.py: the two-pass PII anonymizer                 *)
(* (spaCy NER pass, then the regex pass), its audit log, the process-wide  *)
(* model handle and batch_anonymize.                                       *)
(*                                                                         *)
(* Texts are sequences of characters over a small alphabet:                *)
(*   "a"  a letter            "1"  a digit                                 *)
(*   "@"  the at sign         "-"  a hyphen (non-word, allowed in e-mail   *)
(*   " "  white space              local parts, separator of PHONE, SSN)   *)
(*   "[" "]" brackets                                                      *)
(*   "R"  the word "REDACTED_" of a token (word characters, underscore)    *)
(*   "PERSON", "LOCATION", ... the upper-case word that ends a token       *)
(* so the token "[REDACTED_PERSON]" is <<"[", "R", "PERSON", "]">> and     *)
(* the test `"[REDACTED_" in s` is the search for <<"[", "R">>.            *)
(* Offsets are Python offsets: the span [start, end) of s is               *)
(* s[start+1 .. end] here.                                                 *)
(***************************************************************************)
EXTENDS Integers, Sequences, FiniteSets, TLC

(***************************************************************************)
(* Bounds of the model.                                                    *)
(***************************************************************************)
MaxWords == 2
MaxEnts == 2
MaxBatch == 2
MaxThreads == 3
MaxItems == 2

(***************************************************************************)
(* Configuration tables.                                                   *)
(***************************************************************************)
PII_ENTITY_CONFIG ==
  [PERSON |-> [token |-> <<"[", "R", "PERSON", "]">>, spacy_label |-> "PERSON"],
   GPE    |-> [token |-> <<"[", "R", "LOCATION", "]">>, spacy_label |-> "GPE"],
   ORG    |-> [token |-> <<"[", "R", "ORG", "]">>, spacy_label |-> "ORG"],
   MONEY  |-> [token |-> <<"[", "R", "AMOUNT", "]">>, spacy_label |-> "MONEY"]]

\* list(PII_ENTITY_CONFIG.keys()), in insertion order
PII_ENTITY_KEYS == <<"PERSON", "GPE", "ORG", "MONEY">>

\* ADDITIONAL_PII_PATTERNS.items(), in insertion order: (name, token); the
\* pattern of each name is MatchAt below.
ADDITIONAL_PII_PATTERNS ==
  << [name |-> "EMAIL", token |-> <<"[", "R", "EMAIL", "]">>],
     [name |-> "PHONE", token |-> <<"[", "R", "PHONE", "]">>],
     [name |-> "SSN",   token |-> <<"[", "R", "SSN", "]">>] >>

(***************************************************************************)
(* Character classes of the regular expressions.                           *)
(***************************************************************************)
UpperWords == {"PERSON", "LOCATION", "ORG", "AMOUNT", "EMAIL", "PHONE", "SSN"}
\* [A-Za-z]
Letters == {"a"} \cup UpperWords
\* \w
WordChars == Letters \cup {"1", "R"}
\* [A-Za-z0-9._%+-], the local part of an e-mail address
EmailLocal == Letters \cup {"1", "R", "-"}
\* [A-Z|a-z], the top-level domain
EmailTld == Letters
\* [-.\s], the separator of the digit groups of a phone number
PhoneSep == {"-", " "}

IsWordAt(s, k) == k >= 1 /\ k <= Len(s) /\ s[k] \in WordChars

\* \b at offset p: exactly one of the characters before and after offset p
\* is a word character
WordBoundary(s, p) == IsWordAt(s, p) # IsWordAt(s, p + 1)

CharAt(s, k) == IF k >= 1 /\ k <= Len(s) THEN s[k] ELSE "EOS"

\* the offset after the longest run of characters of class cls that starts
\* at offset p
RECURSIVE RunEnd(_, _, _)
RunEnd(s, p, cls) ==
  IF p < Len(s) /\ s[p + 1] \in cls THEN RunEnd(s, p + 1, cls) ELSE p

NoMatch == 0 - 1

\* The end offset of the match of the pattern `name` that starts at offset
\* p, or NoMatch.  The patterns keep the shape of the configured ones with
\* one digit for each digit group and the domain reduced to its last label:
\*   EMAIL  \b[A-Za-z0-9._%+-]+@[A-Z|a-z]+\b
\*   PHONE  \b[0-9][0-9][-.\s]?[0-9]\b
\*   SSN    \b[0-9]-[0-9]\b
MatchAt(name, s, p) ==
  IF ~WordBoundary(s, p) THEN NoMatch
  ELSE IF name = "EMAIL" THEN
    LET l == RunEnd(s, p, EmailLocal)
        d == RunEnd(s, l + 1, EmailTld)
    IN IF l > p /\ CharAt(s, l + 1) = "@" /\ d > l + 1 /\ WordBoundary(s, d)
       THEN d ELSE NoMatch
  ELSE IF name = "PHONE" THEN
    IF CharAt(s, p + 1) = "1" /\ CharAt(s, p + 2) = "1"
    THEN IF CharAt(s, p + 3) \in PhoneSep /\ CharAt(s, p + 4) = "1"
            /\ WordBoundary(s, p + 4)
         THEN p + 4
         ELSE IF CharAt(s, p + 3) = "1" /\ WordBoundary(s, p + 3)
              THEN p + 3 ELSE NoMatch
    ELSE NoMatch
  ELSE IF name = "SSN" THEN
    IF CharAt(s, p + 1) = "1" /\ CharAt(s, p + 2) = "-"
       /\ CharAt(s, p + 3) = "1" /\ WordBoundary(s, p + 3)
    THEN p + 3 ELSE NoMatch
  ELSE NoMatch

\* list(re.finditer(pattern, s)) from offset p on: the leftmost matches,
\* none overlapping another, as <<start, end>> pairs in ascending order
RECURSIVE finditer(_, _, _)
finditer(name, s, p) ==
  IF p >= Len(s) THEN << >>
  ELSE LET e == MatchAt(name, s, p)
       IN IF e = NoMatch THEN finditer(name, s, p + 1)
          ELSE << <<p, e>> >> \o finditer(name, s, e)

(***************************************************************************)
(* Python strings, lists and dicts.                                        *)
(***************************************************************************)
\* the number of characters of one cell of a text: "R" stands for
\* "REDACTED_" and an upper-case word for the letters of a token's name
CellLen(c) ==
  CASE c = "R" -> 9
    [] c = "PERSON" -> 6
    [] c = "LOCATION" -> 8
    [] c = "ORG" -> 3
    [] c = "AMOUNT" -> 6
    [] c = "EMAIL" -> 5
    [] c = "PHONE" -> 5
    [] c = "SSN" -> 3
    [] OTHER -> 1

\* len(s)
RECURSIVE PyLen(_)
PyLen(s) == IF s = << >> THEN 0 ELSE CellLen(Head(s)) + PyLen(Tail(s))

Min(a, b) == IF a < b THEN a ELSE b

\* s[a:b] for 0 <= a, 0 <= b: a slice never raises, its offsets are clamped
PySlice(s, a, b) == SubSeq(s, Min(a, Len(s)) + 1, Min(b, Len(s)))

\* x in lst
InList(x, lst) == \E i \in DOMAIN lst : lst[i] = x

\* reversed(lst)
Reversed(lst) == [i \in 1..Len(lst) |-> lst[Len(lst) + 1 - i]]

\* {}
EmptyDict == [k \in {} |-> 0]

\* d[k] = d.get(k, 0) + 1
DictIncrement(d, k) ==
  IF k \in DOMAIN d THEN [d EXCEPT ![k] = @ + 1] ELSE d @@ (k :> 1)

\* HasRedactedPrefix true of every string
HasRedactedPrefix_Always(s) == TRUE

\* "[REDACTED_" in s
HasRedactedPrefix(s) ==
  \E i \in 1..(Len(s) - 1) : s[i] = "[" /\ s[i + 1] = "R"

(***************************************************************************)
(* The working copy of anonymize_text.  anonymized_text is the field s;    *)
(* pv records, for each character of s, where it comes from: i >= 1 for    *)
(* the character at offset i - 1 of the input text, -k for a character of  *)
(* the token written by the k-th replacement.  applied lists the           *)
(* replacements in the order they are made, each with the characters it    *)
(* removed; found lists the matches of the pattern pass in the order they  *)
(* are looked at.  pv, applied and found are read by no operation.         *)
(***************************************************************************)
InitialWork(text, now) ==
  [s |-> text,
   pv |-> [i \in 1..Len(text) |-> i],
   audit_log |-> [total_masked |-> 0, by_type |-> EmptyDict,
                  masked_entities |-> << >>, timestamp |-> now],
   applied |-> << >>, found |-> << >>]

\* LogMasked without the count by type
LogMasked_NoByType(audit_log, pii_type, original, token) ==
  [audit_log EXCEPT
     !.total_masked = @ + 1,
     !.masked_entities =
        Append(@, [type |-> pii_type, original |-> original,
                   replacement |-> token])]

\* lines 120-124 and 142-146: the audit record of one replacement
LogMasked(audit_log, pii_type, original, token) ==
  [audit_log EXCEPT
     !.total_masked = @ + 1,
     !.by_type = DictIncrement(@, pii_type),
     !.masked_entities =
        Append(@, [type |-> pii_type, original |-> original,
                   replacement |-> token])]

\* Splice that leaves the span in the text
Splice_KeepSpan(s, start, end, token) ==
  PySlice(s, 0, start) \o token \o PySlice(s, start, Len(s))

\* lines 117 and 141: anonymized_text[:start] + token + anonymized_text[end:]
Splice(s, start, end, token) ==
  PySlice(s, 0, start) \o token \o PySlice(s, end, Len(s))

\* Replace without the audit record
Replace_NoLog(w, start, end, token, pii_type, original, source) ==
  LET k == Len(w.applied) + 1
  IN [s |-> Splice(w.s, start, end, token),
      pv |-> Splice(w.pv, start, end, [i \in 1..Len(token) |-> 0 - k]),
      audit_log |-> w.audit_log,
      applied |-> Append(w.applied,
                    [source |-> source, type |-> pii_type, start |-> start,
                     end |-> end, token |-> token, original |-> original,
                     removed |-> PySlice(w.s, start, end),
                     removed_pv |-> PySlice(w.pv, start, end)]),
      found |-> w.found]

\* lines 117-124 and 141-146: one replacement with its audit record
Replace(w, start, end, token, pii_type, original, source) ==
  LET k == Len(w.applied) + 1
  IN [s |-> Splice(w.s, start, end, token),
      pv |-> Splice(w.pv, start, end, [i \in 1..Len(token) |-> 0 - k]),
      audit_log |-> LogMasked(w.audit_log, pii_type, original, token),
      applied |-> Append(w.applied,
                    [source |-> source, type |-> pii_type, start |-> start,
                     end |-> end, token |-> token, original |-> original,
                     removed |-> PySlice(w.s, start, end),
                     removed_pv |-> PySlice(w.pv, start, end)]),
      found |-> w.found]

(***************************************************************************)
(* Step 1, lines 102-129: the entity pass.  ents is doc.ents, a sequence   *)
(* of [start_char, end_char, label_].                                      *)
(***************************************************************************)
\* CollectReplacements without the test of include_pii_types
RECURSIVE CollectReplacements_NoInclude(_, _, _, _)
CollectReplacements_NoInclude(text, ents, include_pii_types, i) ==
  IF i > Len(ents) THEN << >>
  ELSE LET ent == ents[i]
           rest == CollectReplacements_NoInclude(text, ents, include_pii_types, i + 1)
       IN IF ent.label_ \in DOMAIN PII_ENTITY_CONFIG
          THEN << [start |-> ent.start_char, end |-> ent.end_char,
                   token |-> PII_ENTITY_CONFIG[ent.label_].token,
                   ent_type |-> ent.label_,
                   original |-> PySlice(text, ent.start_char, ent.end_char)] >>
               \o rest
          ELSE rest

\* lines 106-111: the replacements of the eligible entities, in the order
\* of doc.ents
RECURSIVE CollectReplacements(_, _, _, _)
CollectReplacements(text, ents, include_pii_types, i) ==
  IF i > Len(ents) THEN << >>
  ELSE LET ent == ents[i]
           rest == CollectReplacements(text, ents, include_pii_types, i + 1)
       IN IF InList(ent.label_, include_pii_types)
             /\ ent.label_ \in DOMAIN PII_ENTITY_CONFIG
          THEN << [start |-> ent.start_char, end |-> ent.end_char,
                   token |-> PII_ENTITY_CONFIG[ent.label_].token,
                   ent_type |-> ent.label_,
                   original |-> PySlice(text, ent.start_char, ent.end_char)] >>
               \o rest
          ELSE rest

\* ApplyOrder in ascending order of start
ApplyOrder_Forward(replacements) == replacements

\* line 116: the order in which the replacements are applied
ApplyOrder(replacements) == Reversed(replacements)

\* lines 116-124: apply the replacements order[i..]
RECURSIVE ApplyReplacements(_, _, _)
ApplyReplacements(w, order, i) ==
  IF i > Len(order) THEN w
  ELSE LET r == order[i]
       IN ApplyReplacements(
            Replace(w, r.start, r.end, r.token, r.ent_type, r.original, "model"),
            order, i + 1)

\* EntityPass that replaces each entity as the loop meets it, before an
\* exception ends the try block
EntityPass_ApplyAsCollected(w, text, doc, include_pii_types) ==
  ApplyReplacements(
    w, ApplyOrder(CollectReplacements(text, doc.ents, include_pii_types, 1)), 1)

\* lines 102-129: nlp(text) or the loop of lines 106-111 raises, nothing has
\* been replaced yet (the loop of line 116 comes after) and the except
\* clause leaves the working copy as it is; or the loop ends with the
\* replacements of doc.ents
EntityPass(w, text, doc, include_pii_types) ==
  IF doc.raises THEN w
  ELSE ApplyReplacements(
         w, ApplyOrder(CollectReplacements(text, doc.ents, include_pii_types, 1)), 1)

(***************************************************************************)
(* Step 2, lines 134-146: the pattern pass.                                *)
(***************************************************************************)
\* ApplyMatches from the first match to the last: the i-th step takes
\* the match Len(matches) - i + 1, at the offsets it had when it was found
RECURSIVE ApplyMatches_Forward(_, _, _, _, _)
ApplyMatches_Forward(w, pat, searched, matches, i) ==
  IF i < 1 THEN w
  ELSE LET m == matches[Len(matches) - i + 1]
           original_text == PySlice(searched, m[1], m[2])
           seen == [type |-> pat.name, original |-> original_text,
                    discarded |-> HasRedactedPrefix(original_text)]
           w1 == [w EXCEPT !.found = Append(@, seen)]
       IN IF ~HasRedactedPrefix(original_text)
          THEN ApplyMatches_Forward(
                 Replace(w1, m[1], m[2], pat.token, pat.name, original_text, "pattern"),
                 pat, searched, matches, i - 1)
          ELSE ApplyMatches_Forward(w1, pat, searched, matches, i - 1)

\* lines 137-146: the matches of one pattern, found in `searched`, applied
\* from the last one (i = Len(matches)) to the first
RECURSIVE ApplyMatches(_, _, _, _, _)
ApplyMatches(w, pat, searched, matches, i) ==
  IF i < 1 THEN w
  ELSE LET m == matches[i]
           original_text == PySlice(searched, m[1], m[2])
           seen == [type |-> pat.name, original |-> original_text,
                    discarded |-> HasRedactedPrefix(original_text)]
           w1 == [w EXCEPT !.found = Append(@, seen)]
       IN IF ~HasRedactedPrefix(original_text)
          THEN ApplyMatches(
                 Replace(w1, m[1], m[2], pat.token, pat.name, original_text, "pattern"),
                 pat, searched, matches, i - 1)
          ELSE ApplyMatches(w1, pat, searched, matches, i - 1)

\* PatternSubject searching the input text
PatternSubject_Original(anonymized_text, text) == text

\* line 136: the string the pattern is searched in, the working copy
PatternSubject(anonymized_text, text) == anonymized_text

\* lines 134-146: the patterns j.. of ADDITIONAL_PII_PATTERNS in order
RECURSIVE PatternPass(_, _, _, _)
PatternPass(w, text, include_pii_types, j) ==
  IF j > Len(ADDITIONAL_PII_PATTERNS) THEN w
  ELSE LET pat == ADDITIONAL_PII_PATTERNS[j]
       IN IF InList(pat.name, include_pii_types)
          THEN LET searched == PatternSubject(w.s, text)
                   matches == finditer(pat.name, searched, 0)
               IN PatternPass(
                    ApplyMatches(w, pat, searched, matches, Len(matches)),
                    text, include_pii_types, j + 1)
          ELSE PatternPass(w, text, include_pii_types, j + 1)

(***************************************************************************)
(* anonymize_text, lines 86-150, once the model handle is there.           *)
(* text is [isstr, s]: a str with its characters, or another value.        *)
(* include_pii_types is [isNone, list].  doc is what nlp(text) does:       *)
(* [raises, ents].  The result is [text, audit_log] with the working copy  *)
(* of the call (pv, applied) beside it.                                    *)
(***************************************************************************)
\* DefaultPiiTypes without the names of the patterns
DefaultPiiTypes_ModelOnly(include_pii_types) ==
  IF include_pii_types.isNone THEN PII_ENTITY_KEYS ELSE include_pii_types.list

\* lines 90-92
DefaultPiiTypes(include_pii_types) ==
  IF include_pii_types.isNone
  THEN PII_ENTITY_KEYS \o [j \in 1..Len(ADDITIONAL_PII_PATTERNS) |->
                             ADDITIONAL_PII_PATTERNS[j].name]
  ELSE include_pii_types.list

\* IsEarlyReturn without the isinstance test
IsEarlyReturn_NoTypeTest(text) == Len(text.s) = 0

\* line 86
IsEarlyReturn(text) == ~text.isstr \/ Len(text.s) = 0

\* line 87
EarlyReturn(text) ==
  [text |-> text,
   audit_log |-> [total_masked |-> 0, by_type |-> EmptyDict,
                  masked_entities |-> << >>],
   pv |-> << >>, applied |-> << >>, found |-> << >>]

\* anonymize_text with the pattern pass before the entity pass
anonymize_text_PatternFirst(text, include_pii_types, doc, now) ==
  IF IsEarlyReturn(text) THEN EarlyReturn(text)
  ELSE LET types == DefaultPiiTypes(include_pii_types)
           w1 == PatternPass(InitialWork(text.s, now), text.s, types, 1)
           w2 == EntityPass(w1, text.s, doc, types)
       IN [text |-> [isstr |-> TRUE, s |-> w2.s],
           audit_log |-> w2.audit_log,
           pv |-> w2.pv, applied |-> w2.applied, found |-> w2.found]

anonymize_text(text, include_pii_types, doc, now) ==
  IF IsEarlyReturn(text) THEN EarlyReturn(text)
  ELSE LET types == DefaultPiiTypes(include_pii_types)
           w1 == EntityPass(InitialWork(text.s, now), text.s, doc, types)
           w2 == PatternPass(w1, text.s, types, 1)
       IN [text |-> [isstr |-> TRUE, s |-> w2.s],
           audit_log |-> w2.audit_log,
           pv |-> w2.pv, applied |-> w2.applied, found |-> w2.found]

(***************************************************************************)
(* _load_spacy_model, lines 49-60.  The handle is "None", "en_core_web_sm" *)
(* or "blank".  outcome is what spacy.load does: it returns the model,     *)
(* raises OSError (the model is not installed) or raises another error.    *)
(* The result is the new handle and whether the call raised.               *)
(***************************************************************************)
LoadOutcomes == {"loaded", "OSError", "error"}

\* load_spacy_model without the except clause
load_spacy_model_NoFallback(handle, outcome) ==
  IF handle # "None" THEN [nlp |-> handle, raised |-> FALSE]
  ELSE IF outcome = "loaded" THEN [nlp |-> "en_core_web_sm", raised |-> FALSE]
  ELSE [nlp |-> handle, raised |-> TRUE]

\* load_spacy_model that keeps only a handle of the full model: with the
\* blank pipeline in place the next call loads the model
load_spacy_model_RetryBlank(handle, outcome) ==
  IF handle = "en_core_web_sm" THEN [nlp |-> handle, raised |-> FALSE]
  ELSE IF outcome \in {"loaded", "cached"} THEN [nlp |-> "en_core_web_sm", raised |-> FALSE]
  ELSE IF outcome = "OSError" THEN [nlp |-> "blank", raised |-> FALSE]
  ELSE [nlp |-> handle, raised |-> TRUE]

\* lines 49-60
load_spacy_model(handle, outcome) ==
  IF handle # "None" THEN [nlp |-> handle, raised |-> FALSE]
  ELSE IF outcome = "loaded" THEN [nlp |-> "en_core_web_sm", raised |-> FALSE]
  ELSE IF outcome = "OSError" THEN [nlp |-> "blank", raised |-> FALSE]
  ELSE [nlp |-> handle, raised |-> TRUE]

\* line 103: nlp(text).  ner is what the pipeline en_core_web_sm does on the
\* text; the blank pipeline has no entity recognizer and finds no entity
Nlp(handle, ner) ==
  [raises |-> ner.raises,
   ents |-> IF handle = "en_core_web_sm" THEN ner.ents ELSE << >>]

(***************************************************************************)
(* The inputs.  A text is a sequence of at most MaxWords words of the      *)
(* lexicon; the entity recognizer labels at most MaxEnts of the words, each*)
(* labelled word being one entity of doc.ents, so that doc.ents is in      *)
(* ascending order without overlap, as spaCy builds it.  A document is a   *)
(* text with what nlp does on it: [text, ner], ner = [raises, ents].       *)
(***************************************************************************)
Lexicon ==
  { <<"a">>, <<"1">>, <<" ">>, <<"-">>, <<"@", "a">>, <<" ", "1", "@", "a">>,
    <<"1", "1">>, <<"1", "-", "1">> }

\* labels of the recognizer; "O" is no entity and DATE is a label without
\* an entry in PII_ENTITY_CONFIG
EntLabels == {"PERSON", "MONEY", "DATE"}

RECURSIVE Concat(_, _)
Concat(words, i) ==
  IF i > Len(words) THEN << >> ELSE words[i] \o Concat(words, i + 1)

RECURSIVE EntsOf(_, _, _, _)
EntsOf(words, labels, i, offset) ==
  IF i > Len(words) THEN << >>
  ELSE LET rest == EntsOf(words, labels, i + 1, offset + Len(words[i]))
       IN IF labels[i] = "O" THEN rest
          ELSE << [start_char |-> offset, end_char |-> offset + Len(words[i]),
                   label_ |-> labels[i]] >> \o rest

Labellings(n) ==
  { l \in [1..n -> EntLabels \cup {"O"}] :
      Cardinality({i \in 1..n : l[i] # "O"}) <= MaxEnts }

Str(s) == [isstr |-> TRUE, s |-> s]

\* the kinds of value passed as text: a str, None, a non-empty list
TextKinds == {"str", "None", "list"}

\* the document made of the words ws: a str with the entities the
\* recognizer finds (labels) or the exception it raises, or a value that is
\* not a str
Doc(kind, ws, labels, raises) ==
  IF kind = "str"
  THEN [text |-> Str(Concat(ws, 1)),
        ner |-> [raises |-> raises,
                 ents |-> IF raises THEN << >> ELSE EntsOf(ws, labels, 1, 0)]]
  ELSE [text |-> [isstr |-> FALSE, s |-> IF kind = "list" THEN <<"a">> ELSE << >>],
        ner |-> [raises |-> FALSE, ents |-> << >>]]

\* one choice of the parameters of Doc for each document: the labels are
\* chosen only where nlp, the pipeline that reads the document, has an
\* entity recognizer and does not raise
IsDocChoice(kind, ws, labels, raises, nlp) ==
  /\ kind # "str" => Len(ws) = 0
  /\ raises => kind = "str"
  /\ (raises \/ nlp # "en_core_web_sm") => \A i \in 1..Len(ws) : labels[i] = "O"

\* the documents of a batch; in the third the exception comes in the try
\* block when the loop of lines 106-111 has been given an entity already
BatchPool ==
  { [text |-> Str(<<"a", " ", "a", "@", "a">>),
     ner |-> [raises |-> FALSE,
              ents |-> << [start_char |-> 0, end_char |-> 1, label_ |-> "PERSON"] >>]],
    [text |-> Str(<<"1", "1", "1", " ", "1", "-", "1">>),
     ner |-> [raises |-> FALSE,
              ents |-> << [start_char |-> 0, end_char |-> 3, label_ |-> "MONEY"] >>]],
    [text |-> Str(<<"a", "@", "a", " ", "1", "1", "1">>),
     ner |-> [raises |-> TRUE,
              ents |-> << [start_char |-> 0, end_char |-> 1, label_ |-> "PERSON"] >>]],
    [text |-> Str(<<"a">>),
     ner |-> [raises |-> FALSE,
              ents |-> << [start_char |-> 0, end_char |-> 1, label_ |-> "GPE"] >>]],
    [text |-> Str(<< >>), ner |-> [raises |-> FALSE, ents |-> << >>]],
    [text |-> [isstr |-> FALSE, s |-> << >>],
     ner |-> [raises |-> FALSE, ents |-> << >>]] }

NoneTypes == [isNone |-> TRUE, list |-> << >>]

IncludeChoices ==
  { NoneTypes,
    [isNone |-> FALSE, list |-> <<"PERSON", "EMAIL", "PHONE", "SSN">>],
    [isNone |-> FALSE, list |-> <<"DATE", "ORG", "SSN">>] }

(***************************************************************************)
(* batch_anonymize, line 162: the list comprehension calls anonymize_text  *)
(* on the documents i.. in turn, with the default include_pii_types.  The  *)
(* calls share the global handle and the clock; an exception of a call     *)
(* ends the comprehension.                                                 *)
(***************************************************************************)
\* batch_anonymize that leaves out the texts of the early return
RECURSIVE batch_anonymize_SkipEmpty(_, _, _, _, _, _)
batch_anonymize_SkipEmpty(docs, i, handle, outcome, clock, acc) ==
  IF i > Len(docs)
  THEN [raised |-> FALSE, results |-> acc, nlp |-> handle, clock |-> clock]
  ELSE IF IsEarlyReturn(docs[i].text)
  THEN batch_anonymize_SkipEmpty(docs, i + 1, handle, outcome, clock, acc)
  ELSE LET ld == load_spacy_model(handle, outcome)
       IN IF ld.raised
          THEN [raised |-> TRUE, results |-> << >>, nlp |-> ld.nlp, clock |-> clock]
          ELSE batch_anonymize_SkipEmpty(docs, i + 1, ld.nlp, outcome, clock + 1,
                 Append(acc, anonymize_text(docs[i].text, NoneTypes,
                                            Nlp(ld.nlp, docs[i].ner), clock)))

RECURSIVE batch_anonymize(_, _, _, _, _, _)
batch_anonymize(docs, i, handle, outcome, clock, acc) ==
  IF i > Len(docs)
  THEN [raised |-> FALSE, results |-> acc, nlp |-> handle, clock |-> clock]
  ELSE IF IsEarlyReturn(docs[i].text)
  THEN batch_anonymize(docs, i + 1, handle, outcome, clock,
                       Append(acc, EarlyReturn(docs[i].text)))
  ELSE LET ld == load_spacy_model(handle, outcome)
       IN IF ld.raised
          THEN [raised |-> TRUE, results |-> << >>, nlp |-> ld.nlp, clock |-> clock]
          ELSE batch_anonymize(docs, i + 1, ld.nlp, outcome, clock + 1,
                 Append(acc, anonymize_text(docs[i].text, NoneTypes,
                                            Nlp(ld.nlp, docs[i].ner), clock)))

(***************************************************************************)
(* ResponseGenerator.generate_response, response_generator.py lines 56-120.*)
(* A template is a sequence of items: "text" (literal text), the name of a *)
(* replacement field ({policy_type}), or "{}" (a positional field, which   *)
(* str.format cannot fill from keywords: IndexError).  entities is the set *)
(* of the keys of the dict.  Confidences and thresholds are in tenths.     *)
(* An entry of the knowledge base is [template, confidence_threshold,      *)
(* fallback] with the set of its keys that are there.  A text is a         *)
(* sequence of parts.                                                      *)
(***************************************************************************)
Fields == {"policy_type", "premium_amount"}

TemplateItems == Fields \cup {"text", "{}"}

Templates == UNION { [1..n -> TemplateItems] : n \in 0..MaxItems }

EntryKeys == {"template", "confidence_threshold", "fallback"}

\* a key that is not there has the first value of its kind
Entries ==
  { e \in [template : Templates, confidence_threshold : {6, 9},
           fallback : { << <<"fallback text">> >> }, keys : SUBSET EntryKeys] :
      /\ "template" \notin e.keys => e.template = << >>
      /\ "confidence_threshold" \notin e.keys => e.confidence_threshold = 6 }

Confidences == {5, 7, 10}

Intents == {"renewal", "quote"}

\* the knowledge bases: empty (line 46) or with the intent renewal
KnowledgeBases ==
  { [i \in {} |-> << >>] } \cup { [i \in {"renewal"} |-> e] : e \in Entries }

\* dict.get(key, default)
Get(d, key, default) == IF key \in d.keys THEN d[key] ELSE default

\* line 106: template.format with the entities, from item i on, items are
\* rendered from left to right and the first one that fails raises
RECURSIVE Format(_, _, _, _)
Format(template, entities, i, acc) ==
  IF i > Len(template) THEN [raised |-> "none", arg |-> "none", text |-> acc]
  ELSE IF template[i] = "text" THEN Format(template, entities, i + 1, Append(acc, <<"text">>))
  ELSE IF template[i] = "{}"
  THEN [raised |-> "IndexError", arg |-> "none", text |-> << >>]
  ELSE IF template[i] \in entities
  THEN Format(template, entities, i + 1, Append(acc, <<"value of", template[i]>>))
  ELSE [raised |-> "KeyError", arg |-> template[i], text |-> << >>]

\* generate_response without the test of the confidence
generate_response_NoThreshold(knowledge_base, intent, entities, confidence) ==
  LET metadata == [source |-> "unknown", confidence |-> confidence,
                   matched_intent |-> intent, entities_used |-> entities]
  IN IF intent \notin DOMAIN knowledge_base
     THEN [response |-> << <<"I'm not sure how to help with that", intent>> >>,
           metadata |-> [metadata EXCEPT !.source = "fallback"]]
     ELSE
       LET intent_data == knowledge_base[intent]
           f == Format(Get(intent_data, "template", << >>), entities, 1, << >>)
       IN IF f.raised = "none"
          THEN [response |-> f.text,
                metadata |-> [metadata EXCEPT !.source = "template"]]
          ELSE IF f.raised = "KeyError"
          THEN [response |-> << <<"I need more information. Missing:", f.arg>> >>,
                metadata |-> [metadata EXCEPT !.source = "fallback_missing_entity"]]
          ELSE [response |-> Get(intent_data, "fallback",
                                 << <<"I encountered an unexpected error">> >>),
                metadata |-> [metadata EXCEPT !.source = "fallback_error"]]

\* lines 79-120
generate_response(knowledge_base, intent, entities, confidence) ==
  LET metadata == [source |-> "unknown", confidence |-> confidence,
                   matched_intent |-> intent, entities_used |-> entities]
  IN IF intent \notin DOMAIN knowledge_base
     THEN [response |-> << <<"I'm not sure how to help with that", intent>> >>,
           metadata |-> [metadata EXCEPT !.source = "fallback"]]
     ELSE
       LET intent_data == knowledge_base[intent]
           threshold == Get(intent_data, "confidence_threshold", 7)
           f == Format(Get(intent_data, "template", << >>), entities, 1, << >>)
       IN IF confidence < threshold
          THEN [response |-> Get(intent_data, "fallback", << <<"I'm not confident">> >>),
                metadata |-> [metadata EXCEPT !.source = "fallback"]]
          ELSE IF f.raised = "none"
          THEN [response |-> f.text,
                metadata |-> [metadata EXCEPT !.source = "template"]]
          ELSE IF f.raised = "KeyError"
          THEN [response |-> << <<"I need more information. Missing:", f.arg>> >>,
                metadata |-> [metadata EXCEPT !.source = "fallback_missing_entity"]]
          ELSE [response |-> Get(intent_data, "fallback",
                                 << <<"I encountered an unexpected error">> >>),
                metadata |-> [metadata EXCEPT !.source = "fallback_error"]]

(***************************************************************************)
(* The state.                                                              *)
(***************************************************************************)
VARIABLES
  nlp_model,  \* the global _nlp_model
  now,        \* the clock read by datetime.utcnow(), counted from the
              \* start of the caller's operation
  pc,         \* "idle", "returned" or "raised"
  call,       \* the caller's operation: [op, docs, include, load], load
              \* being what spacy.load did in it
  result,     \* what it returned: one [text, audit_log] for each document
  second,     \* a second call the caller makes with what it has:
              \* [kind, index, ner, result]
  malformed,  \* the names of the patterns of ADDITIONAL_PII_PATTERNS whose
              \* regular expression does not compile
  response,   \* a call of generate_response: [knowledge_base, intent,
              \* entities, confidence] and [returned] once it has returned
  threads     \* threads inside _load_spacy_model: [pc, got, built, handle],
              \* built the pipelines constructed so far, handle the place
              \* in built of the one _nlp_model refers to (0: None)

vars == << nlp_model, now, pc, call, result, second, malformed, response, threads >>

\* what the operations of one caller leave alone
others == << malformed, response, threads >>

\* line 136: re.finditer compiles the pattern when it is called, and raises
\* re.error for the first pattern of the list that does not compile
re_error(include_pii_types) ==
  \E j \in 1..Len(ADDITIONAL_PII_PATTERNS) :
    /\ InList(ADDITIONAL_PII_PATTERNS[j].name, DefaultPiiTypes(include_pii_types))
    /\ ADDITIONAL_PII_PATTERNS[j].name \in malformed

NoCall == [op |-> "none", docs |-> << >>, include |-> NoneTypes, load |-> "not called"]

NoSecond ==
  [kind |-> "none", index |-> 0, ner |-> [raises |-> FALSE, ents |-> << >>],
   result |-> << >>]

\* the outcomes of spacy.load that a call can meet
\* ("cached": the handle is there and spacy.load is not called)
Outcomes(handle) == IF handle = "None" THEN LoadOutcomes ELSE {"cached"}

NoResponse == [op |-> "none"]

Threads == 1..MaxThreads

NoThreads ==
  [pc |-> [t \in Threads |-> "start"], got |-> [t \in Threads |-> 0],
   built |-> << >>, handle |-> 0]

Init ==
  /\ nlp_model = "None"
  /\ now = 0
  /\ pc = "idle"
  /\ call = NoCall
  /\ result = << >>
  /\ second = NoSecond
  /\ malformed = {}
  /\ response = NoResponse
  /\ threads = NoThreads

\* the module imported with a configuration in which some patterns may not
\* compile: lines 30-34 are string literals, nothing compiles them at
\* import
ConfigChoices == { {}, {"PHONE"}, {"EMAIL", "SSN"} }

InitConfig ==
  /\ nlp_model = "None"
  /\ now = 0
  /\ pc = "idle"
  /\ call = NoCall
  /\ result = << >>
  /\ second = NoSecond
  /\ malformed \in ConfigChoices
  /\ response = NoResponse
  /\ threads = NoThreads

\* a direct call of _load_spacy_model, line 168
LoadSpacyModel ==
  /\ pc = "idle"
  /\ \E outcome \in Outcomes(nlp_model) :
       nlp_model' = load_spacy_model(nlp_model, outcome).nlp
  /\ UNCHANGED << now, pc, call, result, second >>
  /\ UNCHANGED others

\* anonymize_text(text, include_pii_types=include), lines 86-150
AnonymizeText ==
  /\ pc = "idle"
  /\ \E n \in 0..MaxWords, kind \in TextKinds, raises \in BOOLEAN,
        include \in IncludeChoices, outcome \in Outcomes(nlp_model) :
     \E ws \in [1..n -> Lexicon], labels \in Labellings(n) :
     LET doc == Doc(kind, ws, labels, raises)
         reader == IF IsEarlyReturn(doc.text) \/ load_spacy_model(nlp_model, outcome).raised
                   THEN "None"
                   ELSE load_spacy_model(nlp_model, outcome).nlp
     IN
       /\ IsDocChoice(kind, ws, labels, raises, reader)
       /\ call' = [op |-> "anonymize_text", docs |-> <<doc>>, include |-> include,
                   load |-> IF IsEarlyReturn(doc.text) THEN "not called" ELSE outcome]
       /\ IF IsEarlyReturn(doc.text)
          THEN /\ result' = << EarlyReturn(doc.text) >>
               /\ pc' = "returned"
               /\ UNCHANGED << nlp_model, now >>
          ELSE LET ld == load_spacy_model(nlp_model, outcome)
               IN /\ nlp_model' = ld.nlp
                  /\ IF ld.raised
                     THEN /\ pc' = "raised"
                          /\ result' = << >>
                          /\ UNCHANGED now
                     ELSE IF re_error(include)
                     THEN /\ pc' = "raised"
                          /\ result' = << >>
                          /\ now' = now + 1
                     ELSE /\ pc' = "returned"
                          /\ result' = << anonymize_text(doc.text, include,
                                            Nlp(ld.nlp, doc.ner), now) >>
                          /\ now' = now + 1
  /\ UNCHANGED second
  /\ UNCHANGED others

\* batch_anonymize(texts), lines 153-162
BatchAnonymize ==
  /\ pc = "idle"
  /\ \E docs \in UNION { [1..n -> BatchPool] : n \in 0..MaxBatch },
        outcome \in Outcomes(nlp_model) :
       LET b == batch_anonymize(docs, 1, nlp_model, outcome, now, << >>)
       IN /\ call' = [op |-> "batch_anonymize", docs |-> docs, include |-> NoneTypes,
                      load |-> IF \A i \in 1..Len(docs) : IsEarlyReturn(docs[i].text)
                               THEN "not called" ELSE outcome]
          /\ nlp_model' = b.nlp
          /\ IF ~b.raised /\ re_error(NoneTypes)
                /\ \E i \in 1..Len(docs) : ~IsEarlyReturn(docs[i].text)
             THEN \* the first text that reaches line 136 raises
                  /\ now' = now + 1
                  /\ result' = << >>
                  /\ pc' = "raised"
             ELSE /\ now' = b.clock
                  /\ result' = b.results
                  /\ pc' = IF b.raised THEN "raised" ELSE "returned"
  /\ UNCHANGED second
  /\ UNCHANGED others

\* after a batch, anonymize_text on one of its texts alone
AnonymizeItem ==
  /\ pc = "returned"
  /\ call.op = "batch_anonymize"
  /\ second.kind = "none"
  /\ \E i \in 1..Len(call.docs), outcome \in Outcomes(nlp_model) :
       LET doc == call.docs[i]
           ld == load_spacy_model(nlp_model, outcome)
       IN IF IsEarlyReturn(doc.text)
          THEN /\ second' = [kind |-> "item", index |-> i, ner |-> doc.ner,
                             result |-> << EarlyReturn(doc.text) >>]
               /\ UNCHANGED << nlp_model, now >>
          ELSE /\ ~ld.raised
               /\ nlp_model' = ld.nlp
               /\ second' = [kind |-> "item", index |-> i, ner |-> doc.ner,
                             result |-> << anonymize_text(doc.text, NoneTypes,
                                             Nlp(ld.nlp, doc.ner), now) >>]
               /\ now' = now + 1
  /\ UNCHANGED << pc, call, result >>
  /\ UNCHANGED others

\* what the recognizer can do on the text s of a second call: raise, find
\* nothing, or label one run of word characters
WordRuns(s) ==
  { <<p, RunEnd(s, p, WordChars)>> :
      p \in { q \in 0..(Len(s) - 1) : IsWordAt(s, q + 1) /\ ~IsWordAt(s, q) } }

NerChoices(s) ==
  { [raises |-> TRUE, ents |-> << >>], [raises |-> FALSE, ents |-> << >>] }
  \cup { [raises |-> FALSE,
          ents |-> << [start_char |-> r[1], end_char |-> r[2], label_ |-> l] >>] :
         r \in WordRuns(s), l \in EntLabels }

\* after anonymize_text, anonymize_text on the text it returned, with the
\* same include_pii_types; the recognizer does on an unchanged text what it
\* did before
AnonymizeAgain ==
  /\ pc = "returned"
  /\ call.op = "anonymize_text"
  /\ second.kind = "none"
  /\ LET text == result[1].text IN
     \E ner \in NerChoices(text.s) :
       /\ text = call.docs[1].text => ner = call.docs[1].ner
       /\ IF IsEarlyReturn(text)
          THEN /\ second' = [kind |-> "again", index |-> 1, ner |-> ner,
                             result |-> << EarlyReturn(text) >>]
               /\ UNCHANGED now
          ELSE /\ second' = [kind |-> "again", index |-> 1, ner |-> ner,
                             result |-> << anonymize_text(text, call.include,
                                             Nlp(nlp_model, ner), now) >>]
               /\ now' = now + 1
  /\ UNCHANGED << nlp_model, pc, call, result >>
  /\ UNCHANGED others

\* the caller takes the result or the exception
Return ==
  /\ pc \in {"returned", "raised"}
  /\ pc' = "idle"
  /\ call' = NoCall
  /\ result' = << >>
  /\ second' = NoSecond
  /\ now' = 0
  /\ UNCHANGED nlp_model
  /\ UNCHANGED others

Next == LoadSpacyModel \/ AnonymizeText \/ BatchAnonymize \/ AnonymizeItem \/ Return

Spec == Init /\ [][Next]_vars

(***************************************************************************)
(* _load_spacy_model, lines 49-60, called by several threads at once (the  *)
(* endpoint chat of main.py is a plain def: the server runs it in a thread *)
(* pool, and it calls anonymize_text, line 90).  The function takes no     *)
(* lock; a thread can be suspended between any two of its steps.           *)
(***************************************************************************)
\* lines 50-51: if _nlp_model is not None: return _nlp_model
ThreadCheck(t) ==
  /\ threads.pc[t] = "start"
  /\ threads' = IF threads.handle # 0
                THEN [threads EXCEPT !.pc[t] = "done", !.got[t] = threads.handle]
                ELSE [threads EXCEPT !.pc[t] = "load"]
  /\ UNCHANGED << nlp_model, now, pc, call, result, second, malformed, response >>

\* lines 53-56: _nlp_model = spacy.load("en_core_web_sm"), or the exception
ThreadLoad(t) ==
  /\ threads.pc[t] = "load"
  /\ \E outcome \in LoadOutcomes :
       IF outcome = "loaded"
       THEN /\ threads' = [threads EXCEPT !.pc[t] = "return",
                             !.built = Append(@, "en_core_web_sm"),
                             !.handle = Len(threads.built) + 1]
            /\ nlp_model' = "en_core_web_sm"
       ELSE /\ threads' = [threads EXCEPT
                             !.pc[t] = IF outcome = "OSError" THEN "fallback" ELSE "raised"]
            /\ UNCHANGED nlp_model
  /\ UNCHANGED << now, pc, call, result, second, malformed, response >>

\* line 58: _nlp_model = spacy.blank("en")
ThreadFallback(t) ==
  /\ threads.pc[t] = "fallback"
  /\ threads' = [threads EXCEPT !.pc[t] = "return",
                  !.built = Append(@, "blank"),
                  !.handle = Len(threads.built) + 1]
  /\ nlp_model' = "blank"
  /\ UNCHANGED << now, pc, call, result, second, malformed, response >>

\* line 60: return _nlp_model
ThreadReturn(t) ==
  /\ threads.pc[t] = "return"
  /\ threads' = [threads EXCEPT !.pc[t] = "done", !.got[t] = threads.handle]
  /\ UNCHANGED << nlp_model, now, pc, call, result, second, malformed, response >>

NextThreads ==
  \E t \in Threads :
    ThreadCheck(t) \/ ThreadLoad(t) \/ ThreadFallback(t) \/ ThreadReturn(t)

SpecThreads == Init /\ [][NextThreads]_vars

(***************************************************************************)
(* The response generator, constructed with one knowledge base for each    *)
(* call here (main.py line 42 constructs one at start-up, line 93 calls    *)
(* it).                                                                    *)
(***************************************************************************)
GenerateResponse ==
  /\ response.op = "none"
  /\ \E knowledge_base \in KnowledgeBases, intent \in Intents,
        entities \in SUBSET Fields, confidence \in Confidences :
       response' = [op |-> "generate_response", knowledge_base |-> knowledge_base,
                    intent |-> intent, entities |-> entities,
                    confidence |-> confidence,
                    returned |-> generate_response(knowledge_base, intent,
                                                   entities, confidence)]
  /\ UNCHANGED << nlp_model, now, pc, call, result, second, malformed, threads >>

ResponseReturn ==
  /\ response.op = "generate_response"
  /\ response' = NoResponse
  /\ UNCHANGED << nlp_model, now, pc, call, result, second, malformed, threads >>

NextResponse == GenerateResponse \/ ResponseReturn

SpecResponse == Init /\ [][NextResponse]_vars

\* the same operations on a module whose patterns may not compile
SpecConfig == InitConfig /\ [][Next]_vars

\* the same with second calls on the returned text
NextAgain == Next \/ AnonymizeAgain

SpecAgain == Init /\ [][NextAgain]_vars

(***************************************************************************)
(* Properties.                                                             *)
(***************************************************************************)
\* sum(d.values())
RECURSIVE SumValues(_)
SumValues(d) ==
  IF DOMAIN d = {} THEN 0
  ELSE LET k == CHOOSE x \in DOMAIN d : TRUE
       IN d[k] + SumValues([x \in DOMAIN d \ {k} |-> d[x]])

\* every (text, audit log) pair the caller holds
Returned ==
  { result[i] : i \in 1..Len(result) }
  \cup { second.result[i] : i \in 1..Len(second.result) }

\* every call of anonymize_text whose result the caller holds: the text it
\* was given, what the recognizer does on it, the effective
\* include_pii_types and the result r
Runs ==
  { [text |-> call.docs[i].text, ner |-> Nlp(nlp_model, call.docs[i].ner),
     types |-> DefaultPiiTypes(call.include), r |-> result[i]] :
      i \in 1..Len(result) }
  \cup
  { [text |-> IF second.kind = "again" THEN result[1].text
              ELSE call.docs[second.index].text,
     ner |-> Nlp(nlp_model, second.ner),
     types |-> DefaultPiiTypes(IF second.kind = "again" THEN call.include
                               ELSE NoneTypes),
     r |-> second.result[i]] : i \in 1..Len(second.result) }

\* the runs that went past the early return
FullRuns == { x \in Runs : ~IsEarlyReturn(x.text) }

Range(f) == { f[i] : i \in DOMAIN f }

\* the offsets of the input text (counted from 1) that the k-th replacement
\* of r stands for: the characters it removed, and for a removed character
\* of a token the offsets that token stands for
RECURSIVE Covers(_, _)
Covers(r, k) ==
  LET a == r.applied[k]
  IN UNION { IF a.removed_pv[j] > 0 THEN { a.removed_pv[j] }
             ELSE Covers(r, 0 - a.removed_pv[j]) :
             j \in 1..Len(a.removed_pv) }

\* the span of the k-th replacement in offsets of the input text: the
\* entity's own offsets, or what the match covers
OrigSpan(r, k) ==
  IF r.applied[k].source = "model"
  THEN (r.applied[k].start + 1)..r.applied[k].end
  ELSE Covers(r, k)

\* the positions of the returned text that hold the token of the k-th
\* replacement
TokenAt(r, k) == { p \in 1..Len(r.pv) : r.pv[p] = 0 - k }

SetMin(S) == CHOOSE x \in S : \A y \in S : x <= y
SetMax(S) == CHOOSE x \in S : \A y \in S : x >= y

\* C1: in every audit log that anonymize_text returns, on the early return
\* too, total_masked equals the number of masked_entities and the sum of
\* the counts of by_type.
C1_CountConsistency ==
  \A r \in Returned :
    /\ r.audit_log.total_masked = Len(r.audit_log.masked_entities)
    /\ r.audit_log.total_masked = SumValues(r.audit_log.by_type)

\* a call that masked at least two spans of two types
C1_Witness ==
  /\ pc = "returned"
  /\ call.op = "anonymize_text"
  /\ result[1].audit_log.total_masked >= 2
  /\ Cardinality(DOMAIN result[1].audit_log.by_type) >= 2

\* C2: anonymize_text on the text that anonymize_text returned masks
\* nothing.
C2_Idempotence ==
  second.kind = "again" => second.result[1].audit_log.total_masked = 0

C4_Preservation ==
  \A x \in FullRuns :
    LET r == x.r
        out == r.text.s
        kept == { p \in 1..Len(out) : r.pv[p] > 0 }
    IN /\ \A p \in kept : out[p] = x.text.s[r.pv[p]]
       /\ \A p, q \in kept : p < q => r.pv[p] < r.pv[q]
       /\ { r.pv[p] : p \in kept }
            = (1..Len(x.text.s)) \ UNION { OrigSpan(r, k) : k \in 1..Len(r.applied) }
       /\ \A k \in 1..Len(r.applied) :
            LET at == TokenAt(r, k)
                token == r.applied[k].token
            IN /\ Cardinality(at) = Len(token)
               /\ at = SetMin(at)..SetMax(at)
               /\ \A i \in 1..Len(token) : out[SetMin(at) + i - 1] = token[i]
               /\ \A p \in kept :
                    IF r.pv[p] < SetMin(OrigSpan(r, k)) THEN p < SetMin(at)
                    ELSE p > SetMax(at)

\* a call that replaced two entities and a match and kept characters
\* between them
C4_Witness ==
  /\ pc = "returned"
  /\ call.op = "anonymize_text"
  /\ Len(result[1].applied) >= 2
  /\ result[1].applied[1].source = "model"
  /\ \E p \in 2..(Len(result[1].pv) - 1) :
       /\ result[1].pv[p] > 0
       /\ result[1].pv[p - 1] < 0
       /\ result[1].pv[p + 1] < 0

\* C5: only the types in include_pii_types are replaced and counted; an
\* entity whose label is not in the list stays as it is in the returned
\* text, unless an included pattern matches there.
C5_SelectiveFiltering ==
  \A x \in FullRuns :
    LET r == x.r
    IN /\ \A k \in 1..Len(r.applied) : InList(r.applied[k].type, x.types)
       /\ \A k \in 1..Len(r.audit_log.masked_entities) :
            InList(r.audit_log.masked_entities[k].type, x.types)
       /\ \A ty \in DOMAIN r.audit_log.by_type : InList(ty, x.types)
       /\ ~x.ner.raises =>
            \A e \in 1..Len(x.ner.ents) :
              LET ent == x.ner.ents[e]
              IN ~InList(ent.label_, x.types) =>
                   \A o \in (ent.start_char + 1)..ent.end_char :
                     \/ \E p \in 1..Len(r.pv) :
                          r.pv[p] = o /\ r.text.s[p] = x.text.s[o]
                     \/ \E k \in 1..Len(r.applied) :
                          /\ r.applied[k].source = "pattern"
                          /\ o \in Covers(r, k)

\* a call with PERSON and neither ORG nor MONEY in the list, on a text with
\* a PERSON entity and a MONEY entity: only the PERSON is masked
C5_Witness ==
  /\ pc = "returned"
  /\ call.op = "anonymize_text"
  /\ ~call.include.isNone
  /\ InList("PERSON", call.include.list)
  /\ ~InList("ORG", call.include.list)
  /\ ~InList("MONEY", call.include.list)
  /\ nlp_model = "en_core_web_sm"
  /\ \E e \in 1..Len(call.docs[1].ner.ents) :
       call.docs[1].ner.ents[e].label_ = "PERSON"
  /\ \E e \in 1..Len(call.docs[1].ner.ents) :
       LET ent == call.docs[1].ner.ents[e]
       IN /\ ent.label_ = "MONEY"
          /\ \A o \in (ent.start_char + 1)..ent.end_char : o \in Range(result[1].pv)
  /\ result[1].audit_log.by_type = [ty \in {"PERSON"} |-> 1]

\* C6: a match never takes a character of a replaced entity nor of a
\* token: where an entity and a pattern meet, the entity's token is the one
\* in the returned text and the audit log has the entity's record, with its
\* label and token, and none for the pattern.
C6_ModelPriority ==
  \A x \in FullRuns :
    LET r == x.r
    IN \A j \in 1..Len(r.applied) :
         r.applied[j].source = "model" =>
           /\ r.applied[j].token = PII_ENTITY_CONFIG[r.applied[j].type].token
           /\ \A i \in 1..Len(r.applied[j].token) :
                \E p \in TokenAt(r, j) : r.text.s[p] = r.applied[j].token[i]
           /\ Cardinality(TokenAt(r, j)) = Len(r.applied[j].token)
           /\ r.audit_log.masked_entities[j].type = r.applied[j].type
           /\ r.audit_log.masked_entities[j].replacement = r.applied[j].token
           /\ \A k \in 1..Len(r.applied) :
                r.applied[k].source = "pattern" =>
                  /\ Covers(r, k) \cap OrigSpan(r, j) = {}
                  /\ \A i \in 1..Len(r.applied[k].removed_pv) :
                       r.applied[k].removed_pv[i] > 0

\* a call on a text where an included pattern matches the very characters
\* of an entity that is replaced
C6_Witness ==
  /\ pc = "returned"
  /\ call.op = "anonymize_text"
  /\ \E j \in 1..Len(result[1].applied), n \in 1..Len(ADDITIONAL_PII_PATTERNS) :
       LET name == ADDITIONAL_PII_PATTERNS[n].name
           found == finditer(name, call.docs[1].text.s, 0)
       IN /\ result[1].applied[j].source = "model"
          /\ InList(name, DefaultPiiTypes(call.include))
          /\ \E m \in 1..Len(found) :
               (found[m][1] + 1)..found[m][2] = OrigSpan(result[1], j)

\* the patterns of the list `types`
IncludedPatterns(types) ==
  { n \in 1..Len(ADDITIONAL_PII_PATTERNS) :
      InList(ADDITIONAL_PII_PATTERNS[n].name, types) }

C8_MalformedInput ==
  [][ (pc = "idle" /\ call'.op = "anonymize_text"
         /\ (call'.docs[1].text.s = << >> \/ ~call'.docs[1].text.isstr))
      => /\ pc' = "returned"
         /\ Len(result') = 1
         /\ result'[1].text = call'.docs[1].text
         /\ result'[1].audit_log
              = [total_masked |-> 0, by_type |-> EmptyDict, masked_entities |-> << >>]
         /\ result'[1].applied = << >>
         /\ nlp_model' = nlp_model
         /\ now' = now ]_vars

\* a call on a value that is not a str, before any model is loaded
C8_Witness ==
  /\ pc = "returned"
  /\ call.op = "anonymize_text"
  /\ ~call.docs[1].text.isstr
  /\ Len(call.docs[1].text.s) > 0
  /\ result[1].text = call.docs[1].text
  /\ nlp_model = "None"

\* a result without the timestamp of its audit log
StripTimestamp(r) ==
  [r EXCEPT !.audit_log = [k \in DOMAIN r.audit_log \ {"timestamp"} |-> r.audit_log[k]]]

\* C9: batch_anonymize returns one pair for each text, in the order of the
\* texts, and the pair of a text is, the timestamp aside, what
\* anonymize_text returns for that text alone.
C9_BatchEqualsSingle ==
  /\ (pc = "returned" /\ call.op = "batch_anonymize") => Len(result) = Len(call.docs)
  /\ second.kind = "item" =>
       StripTimestamp(second.result[1]) = StripTimestamp(result[second.index])

\* a batch of two different texts, and the second one anonymized alone
C9_Witness ==
  /\ second.kind = "item"
  /\ second.index = 2
  /\ call.docs[1] # call.docs[2]
  /\ result[1].audit_log.total_masked >= 1
  /\ result[2].audit_log.total_masked >= 1
  /\ second.result[1].audit_log.timestamp # result[2].audit_log.timestamp

\* C10: batch_anonymize does not abort when one document fails: it returns
\* a sequence as long as its input.
C10_BatchIsolation ==
  call.op = "batch_anonymize" => (pc = "returned" /\ Len(result) = Len(call.docs))
\* C11: however the threads that call _load_spacy_model interleave, at most
\* one pipeline is constructed and the threads that return have all got
\* the same handle.
C11_InitOnce ==
  /\ Len(threads.built) <= 1
  /\ \A t, u \in Threads :
       (threads.pc[t] = "done" /\ threads.pc[u] = "done") => threads.got[t] = threads.got[u]

\* the sum of len(token) - (end - start) over the replacements applied[k..]
RECURSIVE LengthChange(_, _)
LengthChange(applied, k) ==
  IF k > Len(applied) THEN 0
  ELSE PyLen(applied[k].token) - (applied[k].end - applied[k].start)
       + LengthChange(applied, k + 1)

\* C12: the length of the text anonymize_text returns is the length of the
\* text it was given plus the sum, over the replacements it made, of
\* len(token) - (end - start).
C12_OutputLength ==
  \A x \in FullRuns :
    PyLen(x.r.text.s) = PyLen(x.text.s) + LengthChange(x.r.applied, 1)

\* a call that replaced an entity and a match of different lengths
C12_Witness ==
  /\ pc = "returned"
  /\ call.op = "anonymize_text"
  /\ \E j, k \in 1..Len(result[1].applied) :
       /\ result[1].applied[j].source = "model"
       /\ result[1].applied[k].source = "pattern"
       /\ result[1].applied[j].end - result[1].applied[j].start
            # result[1].applied[k].end - result[1].applied[k].start
       /\ PyLen(result[1].applied[j].token) # PyLen(result[1].applied[k].token)

\* C13: every audit log anonymize_text returns has the four fields
\* total_masked, by_type, masked_entities and timestamp.
C13_FourFields ==
  \A r \in Returned :
    DOMAIN r.audit_log = {"total_masked", "by_type", "masked_entities", "timestamp"}

\* the list of all the keys of the two configuration tables, passed
\* explicitly
AllConfigured ==
  [isNone |-> FALSE,
   list |-> <<"PERSON", "GPE", "ORG", "MONEY", "EMAIL", "PHONE", "SSN">>]

\* C14: anonymize_text without include_pii_types returns what it returns
\* with the list of all configured labels and patterns, and every pair of
\* batch_anonymize is what anonymize_text returns with that list.
C14_NoneIsAll ==
  /\ (pc = "returned" /\ call.op = "anonymize_text" /\ call.include.isNone) =>
       result[1] = anonymize_text(call.docs[1].text, AllConfigured,
                                  Nlp(nlp_model, call.docs[1].ner),
                                  IF IsEarlyReturn(call.docs[1].text) THEN 0
                                  ELSE result[1].audit_log.timestamp)
  /\ (pc = "returned" /\ call.op = "batch_anonymize") =>
       \A i \in 1..Len(result) :
         result[i] = anonymize_text(call.docs[i].text, AllConfigured,
                                    Nlp(nlp_model, call.docs[i].ner),
                                    IF IsEarlyReturn(call.docs[i].text) THEN 0
                                    ELSE result[i].audit_log.timestamp)

\* a call without include_pii_types that masked an entity and a match
C14_SingleCase ==
  /\ pc = "returned"
  /\ call.op = "anonymize_text"
  /\ call.include.isNone
  /\ \E ty \in {"PERSON", "ORG", "MONEY"} : ty \in DOMAIN result[1].audit_log.by_type
  /\ \E ty \in {"EMAIL", "PHONE", "SSN"} : ty \in DOMAIN result[1].audit_log.by_type

\* a batch in which a GPE entity and, in another text, an entity and a
\* match were masked
C14_Witness ==
  /\ pc = "returned"
  /\ call.op = "batch_anonymize"
  /\ Len(result) = 2
  /\ result[1].audit_log.by_type = [ty \in {"GPE"} |-> 1]
  /\ "MONEY" \in DOMAIN result[2].audit_log.by_type
  /\ "SSN" \in DOMAIN result[2].audit_log.by_type

\* the items of a template that template.format cannot render with the
\* entities: a named field that is not among them, a positional field
FailingItems(template, entities) ==
  { i \in 1..Len(template) :
      template[i] = "{}" \/ (template[i] \in Fields /\ template[i] \notin entities) }

\* what generate_response returns below the threshold, for an intent of the
\* knowledge base: the intent's fallback text
IsLowConfidenceFallback(r, e) ==
  /\ r.metadata.source = "fallback"
  /\ r.response = IF "fallback" \in e.keys THEN e.fallback
                  ELSE << <<"I'm not confident">> >>

CountCell(s, c) == Cardinality({ p \in 1..Len(s) : s[p] = c })

\* C16: the audit log has one record for each replacement made, in the
\* order they were made, with the replacement's label and token; the
\* returned text has as many new tokens as the log has records; by_type
\* has the labels of the replacements made and counts them.
C16_AuditOneToOne ==
  \A x \in FullRuns :
    LET r == x.r
        log == r.audit_log
    IN /\ Len(log.masked_entities) = Len(r.applied)
       /\ log.total_masked = Len(r.applied)
       /\ \A k \in 1..Len(r.applied) :
            /\ log.masked_entities[k].type = r.applied[k].type
            /\ log.masked_entities[k].replacement = r.applied[k].token
            /\ TokenAt(r, k) # {}
       /\ CountCell(r.text.s, "[") - CountCell(x.text.s, "[") = Len(log.masked_entities)
       /\ DOMAIN log.by_type = { r.applied[k].type : k \in 1..Len(r.applied) }
       /\ \A ty \in DOMAIN log.by_type :
            log.by_type[ty] = Cardinality({ k \in 1..Len(r.applied) : r.applied[k].type = ty })

\* a call that made two replacements with the same label
C16_Witness ==
  /\ pc = "returned"
  /\ call.op = "anonymize_text"
  /\ \E ty \in DOMAIN result[1].audit_log.by_type : result[1].audit_log.by_type[ty] = 2

\* C17: masked_entities is in the order of detection: of two records that
\* come from the same source (the entity pass, or the pattern pass), the
\* one whose span is earlier in the text comes first.
C17_DetectionOrder ==
  \A x \in FullRuns :
    \A j, k \in 1..Len(x.r.audit_log.masked_entities) :
      (j < k /\ x.r.applied[j].source = x.r.applied[k].source) =>
        SetMin(OrigSpan(x.r, j)) < SetMin(OrigSpan(x.r, k))

\* the configured token vocabulary: the tokens of the two tables
Vocabulary ==
  { PII_ENTITY_CONFIG[k].token : k \in DOMAIN PII_ENTITY_CONFIG }
  \cup { ADDITIONAL_PII_PATTERNS[j].token : j \in 1..Len(ADDITIONAL_PII_PATTERNS) }

\* token in s
Contains(s, token) ==
  \E p \in 0..(Len(s) - Len(token)) :
    \A i \in 1..Len(token) : s[p + i] = token[i]

\* the records of the pattern pass in the audit log of r
PatternRecords(r) ==
  SelectSeq(r.audit_log.masked_entities,
            LAMBDA e : \E j \in 1..Len(ADDITIONAL_PII_PATTERNS) :
                         e.type = ADDITIONAL_PII_PATTERNS[j].name)

InputMatches(x) ==
  UNION { { [pattern |-> j, start |-> m[1], end |-> m[2]] :
              m \in Range(finditer(ADDITIONAL_PII_PATTERNS[j].name, x.text.s, 0)) } :
          j \in IncludedPatterns(x.types) }

\* C19: of two overlapping matches of different patterns in a text without
\* entities, the one with the earlier start, or with the same start the
\* longer one, is replaced, with its own label over its whole span, and
\* the other one is not.
C19_TieBreak ==
  \A x \in FullRuns :
    (x.ner.raises \/ x.ner.ents = << >>) =>
      \A a, b \in InputMatches(x) :
        ( /\ a.pattern # b.pattern
          /\ a.start < b.end /\ b.start < a.end
          /\ (a.start < b.start \/ (a.start = b.start /\ a.end > b.end)) ) =>
          \E k \in 1..Len(x.r.applied) :
            /\ x.r.applied[k].type = ADDITIONAL_PII_PATTERNS[a.pattern].name
            /\ Covers(x.r, k) = (a.start + 1)..a.end

\* C20: with a pattern that does not compile the engine does not start: no
\* operation is ever carried out, none raises in its course and none
\* returns with the pattern left out.
C20_FatalAtInit ==
  malformed # {} => call.op = "none"

\* C21: once _nlp_model is set, no call of _load_spacy_model, anonymize_text
\* or batch_anonymize made by a caller in sequence assigns it again: it
\* keeps the handle it has, and the table of the patterns stays as it is.
C21_ReadOnlyHandle ==
  [][nlp_model # "None" => (nlp_model' = nlp_model /\ malformed' = malformed)]_vars

\* a call of anonymize_text that found the blank pipeline in place and
\* returned
C21_Witness ==
  /\ pc = "returned"
  /\ call.op = "anonymize_text"
  /\ call.load = "cached"
  /\ nlp_model = "blank"

\* C22: when the recognizer raises in the entity pass, nothing of that pass
\* is in the result: no replacement and no audit record comes from an
\* entity, and the first replacement of the pattern pass is made on the
\* input text as it was given, its record being the first of the log.
C22_AllOrNothing ==
  \A x \in FullRuns :
    x.ner.raises =>
      LET r == x.r
      IN /\ \A k \in 1..Len(r.applied) : r.applied[k].source # "model"
         /\ \A k \in 1..Len(r.audit_log.masked_entities) :
              r.audit_log.masked_entities[k].type \notin DOMAIN PII_ENTITY_CONFIG
         /\ Len(r.audit_log.masked_entities) = Len(r.applied)
         /\ \A p \in 1..Len(r.pv) :
              r.pv[p] < 0 => r.applied[0 - r.pv[p]].source = "pattern"
         /\ r.applied # << >> =>
              LET a == r.applied[1]
              IN /\ a.removed = PySlice(x.text.s, a.start, a.end)
                 /\ a.removed_pv = [i \in 1..(a.end - a.start) |-> a.start + i]
                 /\ r.audit_log.masked_entities[1].type = a.type
                 /\ r.audit_log.masked_entities[1].original = a.removed

\* a text of a batch on which the recognizer raised after it had given an
\* entity of an included label, and in which a pattern was then replaced
C22_Witness ==
  /\ pc = "returned"
  /\ call.op = "batch_anonymize"
  /\ \E i \in 1..Len(result) :
       /\ call.docs[i].ner.raises
       /\ nlp_model = "en_core_web_sm"
       /\ CollectReplacements(call.docs[i].text.s, call.docs[i].ner.ents,
                              DefaultPiiTypes(call.include), 1) # << >>
       /\ result[i].applied # << >>

\* C23: in every record of masked_entities the field original is the very
\* string that the record's replacement took out of the text; for an
\* entity it is the input text from start_char to end_char.
C23_OriginalIsRemoved ==
  \A x \in FullRuns :
    LET r == x.r
        log == r.audit_log.masked_entities
    IN /\ Len(log) = Len(r.applied)
       /\ \A k \in 1..Len(r.applied) :
            LET a == r.applied[k]
            IN /\ log[k].original = a.removed
               /\ log[k].original # << >>
               /\ a.source = "model" =>
                    /\ log[k].original = PySlice(x.text.s, a.start, a.end)
                    /\ a.removed_pv = [i \in 1..(a.end - a.start) |-> a.start + i]

\* a call in which one pattern matched at two places and both matches were
\* replaced, the later one first
C23_Witness ==
  \E x \in FullRuns :
    \E j, k \in 1..Len(x.r.applied) :
      /\ j < k
      /\ x.r.applied[j].source = "pattern"
      /\ x.r.applied[k].source = "pattern"
      /\ x.r.applied[j].type = x.r.applied[k].type
      /\ x.r.applied[k].start < x.r.applied[j].start

\* a call in which two entities were replaced, with tokens that differ
\* from what they stand for
C23_EntityCase ==
  /\ pc = "returned"
  /\ call.op = "anonymize_text"
  /\ \E j, k \in 1..Len(result[1].applied) :
       /\ result[1].applied[j].source = "model"
       /\ result[1].applied[k].source = "model"
       /\ result[1].applied[j].start > result[1].applied[k].start
       /\ result[1].applied[j].token # result[1].applied[j].removed
====
